---- MODULE Spec2Model ----
(***************************************************************************)
(* Task orchestrator of pdftool (service.TaskService): the persisted task  *)
(* document meta.json, the background page-translation pool started by     *)
(* CreateTask, RetranslatePage, MergeText / MergePDF and the chunked       *)
(* formatting pipeline FormatTaskLayout.                                   *)
(*                                                                         *)
(* loadTask reads meta.json without taking s.mu; saveTask takes s.mu only  *)
(* around the write; updateFormattingState holds s.mu around its own load, *)
(* mutate and save.  Every save replaces the whole document.  Each action  *)
(* below is one such lock-delimited step or one provider call returning.   *)
(*                                                                         *)
(* One task is modelled, with at most one RetranslatePage call, one merge  *)
(* call and one FormatTaskLayout call in progress at a time; each can be   *)
(* called again once it has returned.  The full system is Spec; the claims *)
(* are checked under sub-systems (SpecPages, SpecFormat, SpecFormatMerge,  *)
(* SpecPool, SpecCreate, SpecDelete, SpecPageSet), which run a subset of   *)
(* the operations.                                                         *)
(***************************************************************************)
EXTENDS Integers, Sequences, FiniteSets, TLC

\* ------------------------------------------------------------------ bounds
NPages == 2          \* pages rendered from the uploaded PDF
MaxWorkers == 2      \* PDFTOOL_MAX_WORKERS values tried: 1..MaxWorkers
MaxChunks == 2       \* chunk count of one formatting run: 1..MaxChunks
MaxTotal == 3        \* page counts given to determineInitialPageSet: 1..MaxTotal
DocBlocks == 2       \* write calls that os.WriteFile needs for one document
MaxTime == 2         \* clock readings (time.Now()): 1..MaxTime
MaxTasks == 3        \* entries of the storage directory: 1..MaxTasks
MaxLen == 4          \* runes and stray bytes of a text given to splitTextChunks
MaxBudget == 4       \* byte budgets tried: 1..MaxBudget, and the same above 512
MaxTokenBudget == 40000   \* ProviderConfig.MaxTokens tried: -1..MaxTokenBudget

\* ------------------------------------------------------- program constants
workerLimit == 3     \* FormatTaskLayout: initial concurrency cap
maxRetries == 3      \* processChunk: rate-limit retries per chunk
formatterChunkSize == 61440   \* 60 * 1024: upper bound of a chunk in bytes
minFormatterChunk == 12288    \* 12 * 1024: lower bound of the byte budget
newlineSlack == 512  \* splitTextChunks: a newline cuts above maxBytes - 512
IntMax == 2147483647 \* largest int of a 32-bit build (2^63 - 1 on a 64-bit one)

PageNums == 1..NPages
ChunkIdx == 1..MaxChunks

Min(a, b) == IF a < b THEN a ELSE b

\* ------------------------------------------------------------ model.Task
PageStatusPending == "pending"
PageStatusCompleted == "completed"
PageStatusError == "error"

\* strings.TrimSpace on the texts a provider returns in this model
TrimSpace(s) ==
  CASE s = " " -> ""
    [] s = " a " -> "a"
    [] OTHER -> s

\* translator.Result values returned by Translate (raw, before trimming)
OCRResults ==
  { [hasText |-> FALSE, src |-> "", tr |-> ""],
    [hasText |-> TRUE, src |-> "s", tr |-> " a "],
    [hasText |-> TRUE, src |-> " ", tr |-> " "] }

\* provider snapshots a request may carry (model.ProviderInfo)
Providers == {"openai", "gemini"}

\* model.PageResult as CreateTask builds it (status pending)
NewPage ==
  [status |-> PageStatusPending, hasText |-> FALSE, src |-> "", tr |-> "",
   error |-> ""]

\* a page outside the initial selection left as it was built
SkipPageLeftPending(pg) == pg

\* CreateTask's treatment of a page outside the initial selection
SkipPage(pg) ==
  [pg EXCEPT !.status = PageStatusCompleted, !.hasText = FALSE, !.src = "",
             !.tr = "", !.error = ""]

\* strings.ToLower(strings.TrimSpace(settings.RangeMode)) on the mode strings
\* of this model
NormalizeMode(m) ==
  CASE m = "CUSTOM" -> "custom"
    [] m = " Range " -> "range"
    [] OTHER -> m

\* determineInitialPageSet without the exchange of start and end
determineInitialPageSetNoSwap(total, st) ==
  LET mode == NormalizeMode(st.mode)
      custom ==
        IF mode = "custom" /\ st.custom > 0
        THEN 1..Min(st.custom, total) ELSE {}
      s0 == IF st.start <= 0 THEN 1 ELSE st.start
      e0 == IF st.end <= 0 THEN total ELSE st.end
      range ==
        IF mode = "range" /\ ~(st.start <= 0 /\ st.end <= 0)
        THEN Min(s0, total)..Min(e0, total) ELSE {}
      result == custom \cup range
  IN IF result = {} THEN 1..total ELSE result

\* determineInitialPageSet(total, settings): the set of selected page numbers
determineInitialPageSet(total, st) ==
  LET mode == NormalizeMode(st.mode)
      custom ==
        IF mode = "custom" /\ st.custom > 0
        THEN 1..Min(st.custom, total) ELSE {}
      s0 == IF st.start <= 0 THEN 1 ELSE st.start
      e0 == IF st.end <= 0 THEN total ELSE st.end
      s1 == IF s0 > e0 THEN e0 ELSE s0
      e1 == IF s0 > e0 THEN s0 ELSE e0
      range ==
        IF mode = "range" /\ ~(st.start <= 0 /\ st.end <= 0)
        THEN Min(s1, total)..Min(e1, total) ELSE {}
      result == custom \cup range
  IN IF result = {} THEN 1..total ELSE result

\* TranslationSettings values tried by CreateTask in this model
SettingsSet ==
  [mode : {"all", "custom", "range"}, custom : 0..NPages,
   start : {0, NPages}, end : {0, 1}]

\* model.Task as CreateTask first saves it, for a set of selected pages;
\* ids[i] stands for the ID and the PageNumber of the page at position i of
\* task.Pages (CreateTask gives page i a fresh uuid and the number i)
NewTask(selected, prov) ==
  [pages |-> [p \in PageNums |->
                IF p \in selected THEN NewPage ELSE SkipPage(NewPage)],
   ids |-> [p \in PageNums |-> p],
   provider |-> prov,
   combinedTxt |-> FALSE,
   combinedPdf |-> FALSE,
   formattedByAI |-> FALSE,
   formattingInProgress |-> FALSE,
   formattingTotalChunks |-> 0,
   formattingCompletedChunks |-> 0]

\* a worker count that is not capped by settings.BatchLimit
workerCountIgnoresBatch(maxW, batchLimit, npages) == Min(maxW, npages)

\* translateTaskPages: the number of pool workers
workerCount(maxW, batchLimit, npages) ==
  LET w1 == IF batchLimit > 0 /\ maxW > batchLimit THEN batchLimit ELSE maxW
  IN IF w1 > npages THEN npages ELSE w1

\* the selected pages in page order, as CreateTask queues them
RECURSIVE SeqOfSet(_)
SeqOfSet(S) ==
  IF S = {} THEN <<>>
  ELSE LET m == CHOOSE x \in S : \A y \in S : x <= y
       IN <<m>> \o SeqOfSet(S \ {m})

VARIABLES
  disk,      \* meta.json: the persisted model.Task
  mem,       \* the *model.Task CreateTask hands to the pool (shared by its workers)
  jobs,      \* pages translateTaskPages has not yet sent on the jobs channel
  worker,    \* pool goroutines: [pc, page, msg]
  rt,        \* the RetranslatePage call in progress: [pc, page, task]
  mg,        \* the MergeText / MergePDF call in progress: [pc, kind, task]
  run,       \* FormatTaskLayout calls: locals, chunk workers, outcome
  artifact,  \* formatted.txt: the chunk count of the run that wrote it (0: no
             \* file), the chunks whose results it holds and its text
  pool,      \* CreateTask / translateTaskPages: [stage, selected, maxW, batch,
             \* calls]; calls[p] counts the pool's Translate calls for page p
  fs,        \* the task directory: "gone" (absent, with the storage directory),
             \* "none" (absent), "dir" (present, without meta.json) or "meta"
             \* (present, with meta.json holding disk)
  last,      \* the result of the last DeleteTask / GetTask call: [op, id, err]
  fn,        \* a call of a pure helper: [name, arg, res]
  sv         \* saveTaskLocked and loadTask at the grain of file operations:
             \* [pc, doc, tmp, meta, rd]; tmp is meta.json.tmp, meta the number
             \* of blocks of disk that meta.json holds, rd a loadTask call

vars ==
  <<disk, mem, jobs, worker, rt, mg, run, artifact, pool, fs, last, fn, sv>>

Workers == 1..MaxWorkers

NoArtifact == [total |-> 0, parts |-> {}, text |-> <<>>]

IdleWorker == [pc |-> "idle", page |-> 0, msg |-> ""]
OffWorker == [pc |-> "off", page |-> 0, msg |-> ""]

\* saveTask(task) / saveTaskLocked(task): the whole document is replaced;
\* os.WriteFile of meta.json.tmp fails when the task directory is absent
saveTask(task) ==
  IF fs \in {"gone", "none"} THEN UNCHANGED <<disk, fs>>
  ELSE disk' = task /\ fs' = "meta"

\* ------------------------------------------------- translateTaskPages pool
\* a worker receives the next page from the jobs channel and calls Translate
PoolTake(w) ==
  /\ worker[w].pc = "idle"
  /\ jobs # <<>>
  /\ worker' = [worker EXCEPT ![w] = [pc |-> "call", page |-> Head(jobs), msg |-> ""]]
  /\ jobs' = Tail(jobs)
  /\ pool' = [pool EXCEPT !.calls[Head(jobs)] = @ + 1]
  /\ UNCHANGED <<disk, mem, rt, mg, run, artifact, fs, last, fn, sv>>

\* translateSinglePage, Translate failed: page.Status = error is stored first
PoolFail(w) ==
  /\ worker[w].pc = "call"
  /\ mem' = [mem EXCEPT !.pages[worker[w].page].status = PageStatusError]
  /\ worker' = [worker EXCEPT ![w].pc = "seterr", ![w].msg = "translate failed"]
  /\ UNCHANGED <<disk, jobs, rt, mg, run, artifact, pool, fs, last, fn, sv>>

\* translateSinglePage: page.Error = message is stored after the status
PoolSetError(w) ==
  /\ worker[w].pc = "seterr"
  /\ mem' = [mem EXCEPT !.pages[worker[w].page].error = worker[w].msg]
  /\ worker' = [worker EXCEPT ![w].pc = "save"]
  /\ UNCHANGED <<disk, jobs, rt, mg, run, artifact, pool, fs, last, fn, sv>>

\* translateSinglePage, Translate succeeded: text fields stored, error cleared
PoolOk(w) ==
  /\ worker[w].pc = "call"
  /\ \E r \in OCRResults :
       mem' = [mem EXCEPT !.pages[worker[w].page] =
                 [@ EXCEPT !.hasText = r.hasText, !.src = TrimSpace(r.src),
                           !.tr = TrimSpace(r.tr), !.error = ""]]
  /\ worker' = [worker EXCEPT ![w].pc = "text"]
  /\ UNCHANGED <<disk, jobs, rt, mg, run, artifact, pool, fs, last, fn, sv>>

\* translateSinglePage: the page text file is written (or removed) and the
\* status becomes completed; a failed os.WriteFile takes the error path
PoolStatus(w) ==
  /\ worker[w].pc = "text"
  /\ LET pg == mem.pages[worker[w].page] IN
       \/ /\ mem' = [mem EXCEPT !.pages[worker[w].page].status = PageStatusCompleted]
          /\ worker' = [worker EXCEPT ![w].pc = "save"]
       \/ /\ pg.hasText /\ pg.tr # ""
          /\ mem' = [mem EXCEPT !.pages[worker[w].page].status = PageStatusError]
          /\ worker' = [worker EXCEPT ![w].pc = "seterr", ![w].msg = "write txt failed"]
  /\ UNCHANGED <<disk, jobs, rt, mg, run, artifact, pool, fs, last, fn, sv>>

\* a pool worker that stops receiving pages after a page of its own failed
PoolSaveStopsOnError(w) ==
  /\ worker[w].pc = "save"
  /\ saveTask(mem)
  /\ worker' = [worker EXCEPT ![w] =
                  IF mem.pages[worker[w].page].status = PageStatusError
                  THEN OffWorker ELSE IdleWorker]
  /\ UNCHANGED <<mem, jobs, rt, mg, run, artifact, pool, last, fn, sv>>

\* persistPageUpdate(task, page, false) / saveTask(task): the pool's shared
\* task object is marshalled as it is at this moment and replaces meta.json
PoolSave(w) ==
  /\ worker[w].pc = "save"
  /\ saveTask(mem)
  /\ worker' = [worker EXCEPT ![w] = IdleWorker]
  /\ UNCHANGED <<mem, jobs, rt, mg, run, artifact, pool, last, fn, sv>>

PoolStep == \E w \in Workers :
  PoolTake(w) \/ PoolFail(w) \/ PoolSetError(w) \/ PoolOk(w) \/ PoolStatus(w) \/ PoolSave(w)

\* ---------------------------------------------------------- RetranslatePage
IdleRt == [pc |-> "idle", page |-> 0, task |-> <<>>]

\* mergeProviderConfig(input, task): a blank input type keeps the task's provider
mergeProviderConfig(input, task) == IF input = "" THEN task.provider ELSE input

\* RetranslatePage: loadTask(taskID) at entry, without the lock
RtLoad(p, input) ==
  /\ rt.pc = "idle"
  /\ fs = "meta"
  /\ rt' = [pc |-> "loaded", page |-> p,
            task |-> [disk EXCEPT !.provider = mergeProviderConfig(input, disk)]]
  /\ UNCHANGED <<disk, mem, jobs, worker, mg, run, artifact, pool, fs, last,
                 fn, sv>>

\* RetranslatePage: task.Provider is replaced and the loaded task saved; a page
\* number that is not in the task returns an error after this save
RtSaveProvider ==
  /\ rt.pc = "loaded"
  /\ saveTask(rt.task)
  /\ rt' = IF rt.page \in PageNums THEN [rt EXCEPT !.pc = "call"] ELSE IdleRt
  /\ UNCHANGED <<mem, jobs, worker, mg, run, artifact, pool, last, fn, sv>>

\* translateSinglePage(task, target, true), Translate failed: the page of the
\* task loaded at entry is marked and that task is saved next
RtFail ==
  /\ rt.pc = "call"
  /\ rt' = [rt EXCEPT !.pc = "savetask",
                      !.task.pages[rt.page].status = PageStatusError,
                      !.task.pages[rt.page].error = "translate failed"]
  /\ UNCHANGED <<disk, mem, jobs, worker, mg, run, artifact, pool, fs, last,
                 fn, sv>>

\* a successful retranslation that leaves page.Error as it was
RtOkKeepsError ==
  /\ rt.pc = "call"
  /\ \E r \in OCRResults :
       rt' = [rt EXCEPT !.pc = "merge",
                !.task.pages[rt.page] =
                   [@ EXCEPT !.hasText = r.hasText, !.src = TrimSpace(r.src),
                             !.tr = TrimSpace(r.tr),
                             !.status = PageStatusCompleted]]
  /\ UNCHANGED <<disk, mem, jobs, worker, mg, run, artifact, pool, fs, last,
                 fn, sv>>

\* translateSinglePage(task, target, true), Translate succeeded: text fields
\* and status stored in the page; a failed os.WriteFile takes the error path
RtOk ==
  /\ rt.pc = "call"
  /\ \E r \in OCRResults :
       LET pg == [rt.task.pages[rt.page] EXCEPT
                    !.hasText = r.hasText, !.src = TrimSpace(r.src),
                    !.tr = TrimSpace(r.tr), !.error = ""]
       IN \/ rt' = [rt EXCEPT !.pc = "merge",
                      !.task.pages[rt.page] = [pg EXCEPT !.status = PageStatusCompleted]]
          \/ /\ pg.hasText /\ pg.tr # ""
             /\ rt' = [rt EXCEPT !.pc = "savetask",
                         !.task.pages[rt.page] =
                            [pg EXCEPT !.status = PageStatusError,
                                       !.error = "write txt failed"]]
  /\ UNCHANGED <<disk, mem, jobs, worker, mg, run, artifact, pool, fs, last,
                 fn, sv>>

\* translateSinglePage error path: saveTask(task) with the task loaded at entry
RtSaveTask ==
  /\ rt.pc = "savetask"
  /\ saveTask(rt.task)
  /\ rt' = IdleRt
  /\ UNCHANGED <<mem, jobs, worker, mg, run, artifact, pool, last, fn, sv>>

\* a merge that appends the page without looking for its id
mergePageAlwaysAppends(current, id, page) ==
  [current EXCEPT !.pages = Append(@, page), !.ids = Append(@, id)]

\* persistPageUpdate(task, page, true) on the loaded document: the first
\* page with the same ID is replaced, and the page is appended when no page
\* has that ID
mergePage(current, id, page) ==
  LET found == {idx \in DOMAIN current.ids : current.ids[idx] = id} IN
    IF found # {}
    THEN LET first == CHOOSE idx \in found : \A j \in found : idx <= j
         IN [current EXCEPT !.pages[first] = page]
    ELSE [current EXCEPT !.pages = Append(@, page), !.ids = Append(@, id)]

\* persistPageUpdate(task, page, true): loadTask of the current document
\* (without the lock) and replacement of the page with the same id
RtMergeLoad ==
  /\ rt.pc = "merge"
  /\ rt' = [rt EXCEPT !.pc = "mergesave",
                      !.task = mergePage(disk, rt.task.ids[rt.page],
                                         rt.task.pages[rt.page])]
  /\ UNCHANGED <<disk, mem, jobs, worker, mg, run, artifact, pool, fs, last,
                 fn, sv>>

\* persistPageUpdate(task, page, true): saveTask(current)
RtMergeSave ==
  /\ rt.pc = "mergesave"
  /\ saveTask(rt.task)
  /\ rt' = IdleRt
  /\ UNCHANGED <<mem, jobs, worker, mg, run, artifact, pool, last, fn, sv>>

RetranslatePage ==
  \/ \E p \in 1..(NPages + 1), input \in Providers \cup {""} : RtLoad(p, input)
  \/ RtSaveProvider \/ RtFail \/ RtOk \/ RtSaveTask \/ RtMergeLoad \/ RtMergeSave

\* ------------------------------------------------------ MergeText / MergePDF
IdleMg == [pc |-> "idle", kind |-> "", task |-> <<>>]

\* buildCombinedText(task) succeeds: some page has text and a translation
\* that is not blank
HasCombinedText(task) ==
  \E p \in PageNums : task.pages[p].hasText /\ TrimSpace(task.pages[p].tr) # ""

\* MergeText / MergePDF: loadTask(taskID) without the lock; MergeText returns
\* an error when buildCombinedText finds no text
MgLoad(kind) ==
  /\ mg.pc = "idle"
  /\ fs = "meta"
  /\ kind = "txt" => HasCombinedText(disk)
  /\ mg' = [pc |-> "loaded", kind |-> kind, task |-> disk]
  /\ UNCHANGED <<disk, mem, jobs, worker, rt, run, artifact, pool, fs, last,
                 fn, sv>>

\* MergeText / MergePDF: the artifact path is set in the loaded task, which is saved
MgSave ==
  /\ mg.pc = "loaded"
  /\ saveTask(IF mg.kind = "txt" THEN [mg.task EXCEPT !.combinedTxt = TRUE]
              ELSE [mg.task EXCEPT !.combinedPdf = TRUE])
  /\ mg' = IdleMg
  /\ UNCHANGED <<mem, jobs, worker, rt, run, artifact, pool, last, fn, sv>>

MergeText == MgLoad("txt") \/ MgSave

MergePDF == MgLoad("pdf") \/ MgSave

\* the text of buildCombinedText up to position k of task.Pages: one segment
\* [page, text] stands for the header of the page number, the trimmed
\* translation and the blank line after it
RECURSIVE CombinedUpTo(_, _)
CombinedUpTo(task, k) ==
  IF k = 0 THEN <<>>
  ELSE LET pg == task.pages[k]
           text == TrimSpace(pg.tr)
       IN CombinedUpTo(task, k - 1) \o
          (IF pg.hasText /\ text # ""
           THEN <<[page |-> task.ids[k], text |-> text]>> ELSE <<>>)

\* a combined text that takes every page with a translation, HasText or not
RECURSIVE CombinedIgnoringHasText(_, _)
CombinedIgnoringHasText(task, k) ==
  IF k = 0 THEN <<>>
  ELSE LET pg == task.pages[k]
           text == TrimSpace(pg.tr)
       IN CombinedIgnoringHasText(task, k - 1) \o
          (IF text # ""
           THEN <<[page |-> task.ids[k], text |-> text]>> ELSE <<>>)

buildCombinedTextIgnoringHasText(task) ==
  CombinedIgnoringHasText(task, Len(task.pages))

\* buildCombinedText(task): the text, empty when the call returns its error
buildCombinedText(task) == CombinedUpTo(task, Len(task.pages))

\* MergeText on the task loadTask returned: the error it returns, whether
\* combined.txt was written and with what, and the task it saved if any
MergeTextResult(task) ==
  LET text == buildCombinedText(task) IN
    IF text = <<>>
    THEN [err |-> "no text", wrote |-> FALSE, file |-> <<>>, saved |-> FALSE,
          task |-> task]
    ELSE [err |-> "", wrote |-> TRUE, file |-> text, saved |-> TRUE,
          task |-> [task EXCEPT !.combinedTxt = TRUE]]

\* page values of the tasks MergeText is tried on
MergePages ==
  { NewPage, SkipPage(NewPage),
    [NewPage EXCEPT !.status = PageStatusError, !.error = "translate failed"],
    [NewPage EXCEPT !.status = PageStatusCompleted, !.hasText = TRUE,
                    !.src = "s", !.tr = " a "],
    [NewPage EXCEPT !.status = PageStatusCompleted, !.hasText = TRUE,
                    !.src = "s", !.tr = " "],
    [NewPage EXCEPT !.status = PageStatusCompleted, !.hasText = FALSE,
                    !.tr = "a"] }

\* one MergeText call on a loaded task of its own
ApplyMergeText ==
  /\ fn.name = "none"
  /\ \E pgs \in [PageNums -> MergePages], prov \in Providers, txt \in BOOLEAN :
       LET task == [NewTask(PageNums, prov) EXCEPT !.pages = pgs,
                                                   !.combinedTxt = txt]
       IN fn' = [name |-> "MergeText", arg |-> task,
                 res |-> MergeTextResult(task)]
  /\ UNCHANGED <<disk, mem, jobs, worker, rt, mg, run, artifact, pool, fs,
                 last, sv>>

\* --------------------------------------------------------- FormatTaskLayout
\* a chunk goroutine: position in processChunk, retries, the limit read by
\* acquireSlot, the value returned by atomic.AddInt32(&completedChunks, 1),
\* whether results[idx] was written, the number of formatter.Format calls
\* made for the chunk, the seconds of its last time.Sleep, and what its last
\* Format call gave
NewChunk ==
  [pc |-> "start", retries |-> 0, curLimit |-> 0, completed |-> 0,
   result |-> FALSE, calls |-> 0, wait |-> 0, out |-> "none"]
NoChunk ==
  [pc |-> "none", retries |-> 0, curLimit |-> 0, completed |-> 0,
   result |-> FALSE, calls |-> 0, wait |-> 0, out |-> "none"]

\* A text is a sequence of tokens: the trimmed output of formatter.Format for
\* chunk i is the one token ChunkText(i), the separator of strings.Join is
\* the token Separator, and the empty string is the empty sequence.
Separator == "\n\n"
ChunkText(i) == <<ToString(i)>>

\* strings.Join(results[1..n], "\n\n")
RECURSIVE Join(_, _)
Join(results, n) ==
  IF n = 0 THEN <<>>
  ELSE IF n = 1 THEN results[1]
  ELSE Join(results, n - 1) \o <<Separator>> \o results[n]

\* strings.TrimSpace on a joined text: leading and trailing separators go
RECURSIVE TrimText(_)
TrimText(t) ==
  IF t = <<>> THEN t
  ELSE IF Head(t) = Separator THEN TrimText(Tail(t))
  ELSE IF t[Len(t)] = Separator THEN TrimText(SubSeq(t, 1, Len(t) - 1))
  ELSE t

\* a result stored in the first free entry of the results slice
StoreResultInCompletionOrder(results, idx, clean) ==
  LET free == CHOOSE k \in DOMAIN results :
                /\ results[k] = <<>>
                /\ \A j \in DOMAIN results : results[j] = <<>> => k <= j
  IN [results EXCEPT ![free] = clean]

\* results[idx] = clean
StoreResult(results, idx, clean) == [results EXCEPT ![idx] = clean]

\* the locals of a FormatTaskLayout call; pc is "idle", "ok", "failed" or
\* "rejected" (no call in progress, and how the last one returned: with
\* success, with an error after the chunks were dispatched, with an error
\* before that), "entered", "prepared", "work" or "loaded"; results is the
\* results slice
\* the error FormatTaskLayout returns when no chunk recorded one: an empty
\* joined text or a failed write of formatted.txt (a chunk's error is the
\* chunk's index)
OwnError == MaxChunks + 1

IdleRun(outcome) ==
  [pc |-> outcome, totalChunks |-> 0, currentLimit |-> 0, activeSlots |-> 0,
   firstErr |-> 0, ctxDone |-> FALSE, completedChunks |-> 0, task |-> <<>>,
   err |-> 0,
   chunk |-> [i \in ChunkIdx |-> NoChunk],
   results |-> [i \in ChunkIdx |-> <<>>]]

\* outcomes of formatter.Format followed by the length check of processChunk
FormatOutcomes == {"ok", "short", "ratelimit", "error"}

\* chunkCtx.Err() != nil: setError cancelled it, or the caller's context ended
Cancelled == run.firstErr # 0 \/ run.ctxDone

NotRunning == run.pc \in {"idle", "ok", "failed", "rejected"}

\* updateFormattingState(taskID, mutate): load, mutate and save under s.mu
updateFormattingState(mutated) ==
  IF fs = "meta" THEN disk' = mutated /\ fs' = fs ELSE UNCHANGED <<disk, fs>>

\* the update at the start of a run
StartState(t, totalChunks) ==
  [t EXCEPT !.formattingInProgress = TRUE,
            !.formattingTotalChunks = totalChunks,
            !.formattingCompletedChunks = 0]

\* the update after a chunk succeeded
ProgressState(t, totalChunks, completed) ==
  [t EXCEPT !.formattingInProgress = TRUE,
            !.formattingTotalChunks = IF @ = 0 THEN totalChunks ELSE @,
            !.formattingCompletedChunks = completed]

\* the deferred update of a run that did not succeed
FailedState(t, totalChunks, progress) ==
  [t EXCEPT !.formattingInProgress = FALSE,
            !.formattingTotalChunks = IF @ = 0 THEN totalChunks ELSE @,
            !.formattingCompletedChunks = progress]

\* FormattedState without the reset of FormattingInProgress
FormattedStateStillInProgress(t, totalChunks) ==
  [t EXCEPT !.formattedByAI = TRUE,
            !.formattingTotalChunks = totalChunks,
            !.formattingCompletedChunks = totalChunks]

\* the fields set before the final saveTask of a successful run
FormattedState(t, totalChunks) ==
  [t EXCEPT !.formattedByAI = TRUE,
            !.formattingInProgress = FALSE,
            !.formattingTotalChunks = totalChunks,
            !.formattingCompletedChunks = totalChunks]

\* APIKey and Model of the configuration mergeProviderConfig arrives at
FormatConfigs == [apiKey : {"", " ", "k"}, model : {"", "m"}]

\* a FormatTaskLayout call that returned an error before its chunks were
\* dispatched
RejectedRun == [IdleRun("rejected") EXCEPT !.err = OwnError]

\* FormatTaskLayout up to buildCombinedText: loadTask without the lock,
\* mergeProviderConfig and its two checks, the combined text of the loaded
\* task; each of them can return the call's error
FmtEnter(cfg) ==
  /\ NotRunning
  /\ run' = IF /\ fs = "meta"
               /\ TrimSpace(cfg.apiKey) # ""
               /\ TrimSpace(cfg.model) # ""
               /\ HasCombinedText(disk)
            THEN IdleRun("entered")
            ELSE RejectedRun
  /\ UNCHANGED <<disk, mem, jobs, worker, rt, mg, artifact, pool, fs, last,
                 fn, sv>>

\* prepareFormatterChunks: the text is split into n chunks (n follows from
\* the text and from the chunk size that the provider settings give),
\* os.MkdirAll makes the directory formatter_chunks with every missing
\* parent, the task directory included, and the chunk files are written
FmtPrepare(n) ==
  /\ run.pc = "entered"
  /\ run' = [IdleRun("prepared") EXCEPT !.totalChunks = n]
  /\ fs' = IF fs = "meta" THEN "meta" ELSE "dir"
  /\ UNCHANGED <<disk, mem, jobs, worker, rt, mg, artifact, pool, last, fn,
                 sv>>

\* a failed prepareFormatterChunks followed by the finalizer of the run
FmtPrepareFailsFinalizes ==
  /\ run.pc = "entered"
  /\ run' = RejectedRun
  /\ updateFormattingState(FailedState(disk, 0, 0))
  /\ UNCHANGED <<mem, jobs, worker, rt, mg, artifact, pool, last, fn, sv>>

\* prepareFormatterChunks returns an error: os.MkdirAll failed
FmtPrepareFails ==
  /\ run.pc = "entered"
  /\ run' = RejectedRun
  /\ UNCHANGED <<disk, mem, jobs, worker, rt, mg, artifact, pool, fs, last,
                 fn, sv>>

\* FormatTaskLayout: the first updateFormattingState, whose error ends the
\* call, then one goroutine per chunk
FmtBegin ==
  /\ run.pc = "prepared"
  /\ updateFormattingState(StartState(disk, run.totalChunks))
  /\ run' = IF fs = "meta"
            THEN [run EXCEPT !.pc = "work",
                    !.currentLimit = Min(workerLimit, run.totalChunks),
                    !.chunk = [i \in ChunkIdx |->
                                 IF i <= run.totalChunks THEN NewChunk
                                 ELSE NoChunk]]
            ELSE RejectedRun
  /\ UNCHANGED <<mem, jobs, worker, rt, mg, artifact, pool, last, fn, sv>>

\* the context of the HTTP request that called FormatTaskLayout is cancelled
CallerCancel ==
  /\ run.pc = "work"
  /\ ~run.ctxDone
  /\ run' = [run EXCEPT !.ctxDone = TRUE]
  /\ UNCHANGED <<disk, mem, jobs, worker, rt, mg, artifact, pool, fs, last,
                 fn, sv>>

\* processChunk loop head and acquireSlot: return when chunkCtx is done, else
\* read currentLimit
ChunkEnterIgnoresCancel(i) ==
  /\ run.pc = "work"
  /\ run.chunk[i].pc = "start"
  /\ run' = [run EXCEPT !.chunk[i].pc = "cas",
                        !.chunk[i].curLimit = run.currentLimit]
  /\ UNCHANGED <<disk, mem, jobs, worker, rt, mg, artifact, pool, fs, last,
                 fn, sv>>

ChunkEnter(i) ==
  /\ run.pc = "work"
  /\ run.chunk[i].pc = "start"
  /\ run' = IF Cancelled
            THEN [run EXCEPT !.chunk[i].pc = "exit"]
            ELSE [run EXCEPT !.chunk[i].pc = "cas",
                             !.chunk[i].curLimit = run.currentLimit]
  /\ UNCHANGED <<disk, mem, jobs, worker, rt, mg, artifact, pool, fs, last,
                 fn, sv>>

\* acquireSlot: read activeSlots and compare-and-swap it, or sleep and loop
ChunkAcquire(i) ==
  /\ run.pc = "work"
  /\ run.chunk[i].pc = "cas"
  /\ run' = IF run.activeSlots < run.chunk[i].curLimit
            THEN [run EXCEPT !.activeSlots = @ + 1, !.chunk[i].pc = "format",
                             !.chunk[i].calls = @ + 1]
            ELSE [run EXCEPT !.chunk[i].pc = "start"]
  /\ UNCHANGED <<disk, mem, jobs, worker, rt, mg, artifact, pool, fs, last,
                 fn, sv>>

\* setError(err): the first error is kept and cancels chunkCtx
setErrorLastWins(rn, i) == [rn EXCEPT !.firstErr = i]

setError(rn, i) == IF rn.firstErr = 0 THEN [rn EXCEPT !.firstErr = i] ELSE rn

\* processChunk that puts the starting limit back after a successful call
AfterFormatRestoresLimit(rn, i, outcome) ==
  LET rel == [rn EXCEPT !.activeSlots = @ - 1, !.chunk[i].out = outcome] IN
    CASE outcome = "ratelimit" /\ rel.chunk[i].retries < maxRetries ->
           [rel EXCEPT !.currentLimit = IF @ > 1 THEN 1 ELSE @,
                       !.chunk[i].retries = @ + 1,
                       !.chunk[i].wait = rel.chunk[i].retries + 1,
                       !.chunk[i].pc = "sleep"]
      [] outcome = "ok" ->
           [rel EXCEPT !.currentLimit = Min(workerLimit, rel.totalChunks),
                       !.completedChunks = @ + 1,
                       !.chunk[i].completed = rel.completedChunks + 1,
                       !.chunk[i].result = TRUE,
                       !.results = StoreResult(@, i, ChunkText(i)),
                       !.chunk[i].pc = "persist"]
      [] OTHER ->
           [setError(rel, i) EXCEPT !.chunk[i].pc = "exit"]

\* processChunk that keeps its slot while it backs off and retries
AfterFormatKeepsSlot(rn, i, outcome) ==
  LET rel == [rn EXCEPT !.activeSlots = @ - 1, !.chunk[i].out = outcome]
      kept == [rn EXCEPT !.chunk[i].out = outcome] IN
    CASE outcome = "ratelimit" /\ rel.chunk[i].retries < maxRetries ->
           [kept EXCEPT !.currentLimit = IF @ > 1 THEN 1 ELSE @,
                        !.chunk[i].retries = @ + 1,
                        !.chunk[i].wait = rel.chunk[i].retries + 1,
                        !.chunk[i].pc = "sleep"]
      [] outcome = "ok" ->
           [rel EXCEPT !.completedChunks = @ + 1,
                       !.chunk[i].completed = rel.completedChunks + 1,
                       !.chunk[i].result = TRUE,
                       !.results = StoreResult(@, i, ChunkText(i)),
                       !.chunk[i].pc = "persist"]
      [] OTHER ->
           [setError(rel, i) EXCEPT !.chunk[i].pc = "exit"]

\* processChunk that returns on a failure without releaseSlot
AfterFormatLeaksOnError(rn, i, outcome) ==
  LET rel == [rn EXCEPT !.activeSlots = @ - 1, !.chunk[i].out = outcome]
      kept == [rn EXCEPT !.chunk[i].out = outcome] IN
    CASE outcome = "ratelimit" /\ rel.chunk[i].retries < maxRetries ->
           [rel EXCEPT !.currentLimit = IF @ > 1 THEN 1 ELSE @,
                       !.chunk[i].retries = @ + 1,
                       !.chunk[i].wait = rel.chunk[i].retries + 1,
                       !.chunk[i].pc = "sleep"]
      [] outcome = "ok" ->
           [rel EXCEPT !.completedChunks = @ + 1,
                       !.chunk[i].completed = rel.completedChunks + 1,
                       !.chunk[i].result = TRUE,
                       !.results = StoreResult(@, i, ChunkText(i)),
                       !.chunk[i].pc = "persist"]
      [] OTHER ->
           [setError(kept, i) EXCEPT !.chunk[i].pc = "exit"]

\* processChunk after Format returned and releaseSlot ran: a rate-limit error
\* lowers currentLimit to 1 and retries after retries seconds, any other
\* failure calls setError, a result is stored in results[idx] and counted
AfterFormat(rn, i, outcome) ==
  LET rel == [rn EXCEPT !.activeSlots = @ - 1, !.chunk[i].out = outcome] IN
    CASE outcome = "ratelimit" /\ rel.chunk[i].retries < maxRetries ->
           [rel EXCEPT !.currentLimit = IF @ > 1 THEN 1 ELSE @,
                       !.chunk[i].retries = @ + 1,
                       !.chunk[i].wait = rel.chunk[i].retries + 1,
                       !.chunk[i].pc = "sleep"]
      [] outcome = "ok" ->
           [rel EXCEPT !.completedChunks = @ + 1,
                       !.chunk[i].completed = rel.completedChunks + 1,
                       !.chunk[i].result = TRUE,
                       !.results = StoreResult(@, i, ChunkText(i)),
                       !.chunk[i].pc = "persist"]
      [] OTHER ->
           [setError(rel, i) EXCEPT !.chunk[i].pc = "exit"]

\* processChunk: formatter.Format returns
ChunkFormatted(i, outcome) ==
  /\ run.pc = "work"
  /\ run.chunk[i].pc = "format"
  /\ run' = AfterFormat(run, i, outcome)
  /\ UNCHANGED <<disk, mem, jobs, worker, rt, mg, artifact, pool, fs, last,
                 fn, sv>>

\* processChunk: the backoff sleep ends
ChunkWake(i) ==
  /\ run.pc = "work"
  /\ run.chunk[i].pc = "sleep"
  /\ run' = [run EXCEPT !.chunk[i].pc = "start"]
  /\ UNCHANGED <<disk, mem, jobs, worker, rt, mg, artifact, pool, fs, last,
                 fn, sv>>

\* processChunk: the progress of a succeeded chunk is persisted
ChunkPersist(i) ==
  /\ run.pc = "work"
  /\ run.chunk[i].pc = "persist"
  /\ updateFormattingState(
       ProgressState(disk, run.totalChunks, run.chunk[i].completed))
  /\ run' = [run EXCEPT !.chunk[i].pc = "exit"]
  /\ UNCHANGED <<mem, jobs, worker, rt, mg, artifact, pool, last, fn, sv>>

\* wg.Wait() returned
AllExited ==
  /\ run.pc = "work"
  /\ \A i \in 1..run.totalChunks : run.chunk[i].pc = "exit"

\* the chunks whose result is in the results slice
Parts == {i \in 1..run.totalChunks : run.chunk[i].result}

\* FormatTaskLayout after wg.Wait(): the run goes on to assemble the results
\* when firstErr is nil and the joined text is not empty
Assembles == run.firstErr = 0 /\ Parts # {}

\* FormatTaskLayout after wg.Wait(): formatted.txt is written and the task
\* loaded again (without the lock)
FmtAssemble ==
  /\ AllExited
  /\ Assembles
  /\ artifact' = [total |-> run.totalChunks, parts |-> Parts,
                  text |-> TrimText(Join(run.results, run.totalChunks))]
  /\ run' = [run EXCEPT !.pc = "loaded", !.task = disk]
  /\ UNCHANGED <<disk, mem, jobs, worker, rt, mg, pool, fs, last, fn, sv>>

\* FormatTaskLayout: the final saveTask; successful = true, so the deferred
\* function writes nothing
FmtFinish ==
  /\ run.pc = "loaded"
  /\ saveTask(FormattedState(run.task, run.totalChunks))
  /\ run' = IdleRun("ok")
  /\ UNCHANGED <<mem, jobs, worker, rt, mg, artifact, pool, last, fn, sv>>

\* FormatTaskLayout returns an error after the chunks were dispatched
\* (firstErr, an empty joined text, or a failed write of formatted.txt): the
\* deferred function persists the failed state
FmtFail ==
  /\ AllExited
  /\ updateFormattingState(
       FailedState(disk, run.totalChunks, run.completedChunks))
  /\ run' = [IdleRun("failed") EXCEPT
               !.err = IF run.firstErr # 0 THEN run.firstErr ELSE OwnError]
  /\ UNCHANGED <<mem, jobs, worker, rt, mg, artifact, pool, last, fn, sv>>

FormatTaskLayout ==
  \/ \E cfg \in FormatConfigs : FmtEnter(cfg)
  \/ \E n \in 1..MaxChunks : FmtPrepare(n)
  \/ FmtPrepareFails
  \/ FmtBegin \/ CallerCancel \/ FmtAssemble \/ FmtFinish \/ FmtFail
  \/ \E i \in ChunkIdx :
       \/ ChunkEnter(i) \/ ChunkAcquire(i) \/ ChunkWake(i) \/ ChunkPersist(i)
       \/ \E outcome \in FormatOutcomes : ChunkFormatted(i, outcome)

\* ------------------------------------------------------ DeleteTask, GetTask
NoCall == [op |-> "none", id |-> "", err |-> ""]

\* task ids a caller passes: the id of the task, an id no task has, the path
\* element "." and a blank id
TaskIds == {"t", "x", ".", " "}

\* os.Stat(s.taskDir(taskID)) succeeds; filepath.Join(s.storageDir, ".") is
\* the storage directory itself
TaskDirExists(id) ==
  CASE id = "." -> fs # "gone"
    [] id = "t" -> fs \in {"dir", "meta"}
    [] OTHER -> FALSE

\* DeleteTask(taskID): under s.mu, os.Stat of the task directory and then
\* os.RemoveAll of it
DeleteTask(rawId) ==
  LET id == TrimSpace(rawId) IN
    /\ last' = [op |-> "delete", id |-> rawId,
                err |-> IF id = "" THEN "missing id"
                        ELSE IF ~TaskDirExists(id) THEN "not found" ELSE ""]
    /\ IF id = "" \/ ~TaskDirExists(id)
       THEN UNCHANGED <<disk, fs>>
       ELSE /\ fs' = IF id = "." THEN "gone" ELSE "none"
            /\ disk' = NewTask({}, "")
    /\ UNCHANGED <<mem, jobs, worker, rt, mg, run, artifact, pool, fn, sv>>

\* GetTask(taskID): loadTask reads meta.json of the id as given
GetTask(id) ==
  /\ last' = [op |-> "get", id |-> id,
              err |-> IF id = "t" /\ fs = "meta" THEN "" ELSE "load failed"]
  /\ UNCHANGED <<disk, mem, jobs, worker, rt, mg, run, artifact, pool, fs,
                 fn, sv>>

\* ------------------------------------- saveTaskLocked / loadTask, by file
NoFile == [has |-> FALSE, doc |-> NewTask({}, ""), len |-> 0]
NoRead == [pc |-> "idle", doc |-> NewTask({}, ""), len |-> 0]

\* no save and no load in progress, meta.json.tmp absent, meta.json whole
NoSave ==
  [pc |-> "idle", doc |-> NewTask({}, ""), tmp |-> NoFile, meta |-> DocBlocks,
   rd |-> NoRead]

\* the documents saved in this part of the model: the persisted one with
\* another provider or combined-text flag
SaveDocs ==
  {[disk EXCEPT !.provider = p, !.combinedTxt = b] :
     p \in Providers, b \in BOOLEAN}

\* saveTaskLocked: json.MarshalIndent(task), then os.WriteFile(tmp, ..) opens
\* meta.json.tmp and truncates it
SvBegin(task) ==
  /\ sv.pc = "idle"
  /\ fs = "meta"
  /\ sv' = [sv EXCEPT !.pc = "write", !.doc = task,
                      !.tmp = [has |-> TRUE, doc |-> task, len |-> 0]]
  /\ UNCHANGED <<disk, mem, jobs, worker, rt, mg, run, artifact, pool, fs,
                 last, fn>>

\* a save that writes the blocks into meta.json itself
SvWriteInPlace ==
  /\ sv.pc = "write"
  /\ sv.tmp.len < DocBlocks
  /\ disk' = sv.doc
  /\ sv' = [sv EXCEPT !.tmp.len = @ + 1, !.meta = sv.tmp.len + 1]
  /\ UNCHANGED <<mem, jobs, worker, rt, mg, run, artifact, pool, fs, last, fn>>

\* os.WriteFile(tmp, data, 0o644): one more block reaches meta.json.tmp
SvWrite ==
  /\ sv.pc = "write"
  /\ sv.tmp.len < DocBlocks
  /\ sv' = [sv EXCEPT !.tmp.len = @ + 1]
  /\ UNCHANGED <<disk, mem, jobs, worker, rt, mg, run, artifact, pool, fs,
                 last, fn>>

\* os.Rename(tmp, metaPath): meta.json becomes the file meta.json.tmp was
SvRename ==
  /\ sv.pc = "write"
  /\ sv.tmp.len = DocBlocks
  /\ disk' = sv.tmp.doc
  /\ sv' = [sv EXCEPT !.pc = "idle", !.doc = NewTask({}, ""), !.tmp = NoFile,
                      !.meta = sv.tmp.len]
  /\ UNCHANGED <<mem, jobs, worker, rt, mg, run, artifact, pool, fs, last, fn>>

\* the process stops: the save and the load in progress are lost, the files
\* stay as they are
SvCrash ==
  /\ sv.pc # "idle" \/ sv.rd.pc # "idle"
  /\ sv' = [sv EXCEPT !.pc = "idle", !.doc = NewTask({}, ""), !.rd = NoRead]
  /\ UNCHANGED <<disk, mem, jobs, worker, rt, mg, run, artifact, pool, fs,
                 last, fn>>

\* loadTask: os.ReadFile opens meta.json (no lock is taken); the open file
\* stays the one it was when a later rename replaces the name
LdOpen ==
  /\ sv.rd.pc \in {"idle", "done"}
  /\ fs = "meta"
  /\ sv' = [sv EXCEPT !.rd = [pc |-> "open", doc |-> disk, len |-> sv.meta]]
  /\ UNCHANGED <<disk, mem, jobs, worker, rt, mg, run, artifact, pool, fs,
                 last, fn>>

\* loadTask: os.ReadFile has read the open file and json.Unmarshal gets it
LdRead ==
  /\ sv.rd.pc = "open"
  /\ sv' = [sv EXCEPT !.rd.pc = "done"]
  /\ UNCHANGED <<disk, mem, jobs, worker, rt, mg, run, artifact, pool, fs,
                 last, fn>>

SaveLoad ==
  \/ \E task \in SaveDocs : SvBegin(task)
  \/ SvWrite \/ SvRename \/ SvCrash \/ LdOpen \/ LdRead

\* -------------------------------------------- meta.json as a JSON document
Clock == 1..MaxTime

\* encoding/json on a bool and on an int
BoolText(b) == IF b THEN "true" ELSE "false"
TextBool(t) == t = "true"
TextInt(t) == CHOOSE n \in 0..(MaxChunks + MaxTime + 1) : ToString(n) = t

\* the path fields of model.Task: empty until the artifact was merged
PathText(set, name) == IF set THEN name ELSE ""

\* json.MarshalIndent of a model.PageResult: one value per json tag
MarshalPage(pg) ==
  [has_text |-> BoolText(pg.hasText), source_text |-> pg.src,
   translation |-> pg.tr, status |-> pg.status, error |-> pg.error]

\* json.Unmarshal into a model.PageResult
UnmarshalPage(js) ==
  [status |-> js.status, hasText |-> TextBool(js.has_text),
   src |-> js.source_text, tr |-> js.translation, error |-> js.error]

\* json.MarshalIndent(task, "", "  ") of a model.Task whose CreatedAt and
\* UpdatedAt are the given clock readings
MarshalIndent(task, createdAt, updatedAt) ==
  [pages |-> [p \in DOMAIN task.pages |-> MarshalPage(task.pages[p])],
   page_ids |-> task.ids,
   provider |-> [type |-> task.provider],
   combined_txt_path |-> PathText(task.combinedTxt, "combined.txt"),
   combined_pdf_path |-> PathText(task.combinedPdf, "combined.pdf"),
   created_at |-> ToString(createdAt),
   updated_at |-> ToString(updatedAt),
   formatted_by_ai |-> BoolText(task.formattedByAI),
   formatting_in_progress |-> BoolText(task.formattingInProgress),
   formatting_total_chunks |-> ToString(task.formattingTotalChunks),
   formatting_completed_chunks |-> ToString(task.formattingCompletedChunks)]

\* an Unmarshal that has no field for formatting_total_chunks
UnmarshalWithoutTotalChunks(js) ==
  [task |->
     [pages |-> [p \in DOMAIN js.pages |-> UnmarshalPage(js.pages[p])],
      ids |-> js.page_ids,
      provider |-> js.provider.type,
      combinedTxt |-> js.combined_txt_path # "",
      combinedPdf |-> js.combined_pdf_path # "",
      formattedByAI |-> TextBool(js.formatted_by_ai),
      formattingInProgress |-> TextBool(js.formatting_in_progress),
      formattingTotalChunks |-> 0,
      formattingCompletedChunks |-> TextInt(js.formatting_completed_chunks)],
   createdAt |-> TextInt(js.created_at),
   updatedAt |-> TextInt(js.updated_at)]

\* loadTask: json.Unmarshal(data, &task)
Unmarshal(js) ==
  [task |->
     [pages |-> [p \in DOMAIN js.pages |-> UnmarshalPage(js.pages[p])],
      ids |-> js.page_ids,
      provider |-> js.provider.type,
      combinedTxt |-> js.combined_txt_path # "",
      combinedPdf |-> js.combined_pdf_path # "",
      formattedByAI |-> TextBool(js.formatted_by_ai),
      formattingInProgress |-> TextBool(js.formatting_in_progress),
      formattingTotalChunks |-> TextInt(js.formatting_total_chunks),
      formattingCompletedChunks |-> TextInt(js.formatting_completed_chunks)],
   createdAt |-> TextInt(js.created_at),
   updatedAt |-> TextInt(js.updated_at)]

\* saveTask(loadTask(id)) at clock reading now: task.UpdatedAt = time.Now()
\* and the document is marshalled again
SaveLoaded(js, now) ==
  LET loaded == Unmarshal(js)
  IN MarshalIndent(loaded.task, loaded.createdAt, now)

\* task values whose documents are tried
StoredTasks ==
  {[NewTask(sel, prov) EXCEPT
      !.pages[1] = pg, !.combinedTxt = txt, !.formattedByAI = byAI,
      !.formattingInProgress = ~byAI, !.formattingTotalChunks = n,
      !.formattingCompletedChunks = IF byAI THEN n ELSE 0] :
     sel \in SUBSET PageNums \ {{}}, prov \in Providers,
     pg \in {NewPage, SkipPage(NewPage),
             [NewPage EXCEPT !.status = PageStatusError, !.error = "translate failed"],
             [NewPage EXCEPT !.status = PageStatusCompleted, !.hasText = TRUE,
                             !.src = "s", !.tr = "a"]},
     txt \in BOOLEAN, byAI \in BOOLEAN, n \in 0..MaxChunks}

\* one saveTask of the task that loadTask returned for a stored document
ApplySaveLoaded ==
  /\ fn.name = "none"
  /\ \E task \in StoredTasks, createdAt \in Clock, updatedAt \in Clock,
        now \in Clock :
       LET js == MarshalIndent(task, createdAt, updatedAt) IN
         fn' = [name |-> "SaveLoaded", arg |-> <<js, now>>,
                res |-> SaveLoaded(js, now)]
  /\ UNCHANGED <<disk, mem, jobs, worker, rt, mg, run, artifact, pool, fs,
                 last, sv>>

\* ---------------------------------------------------------------- ListTasks
\* page statuses of the tasks listed
ListedPages ==
  { [p \in PageNums |-> PageStatusPending],
    [p \in PageNums |-> IF p = 1 THEN PageStatusCompleted ELSE PageStatusError] }

\* an entry of the storage directory: a task directory with a loadable
\* meta.json, a directory whose meta.json cannot be loaded, or a plain file
DirEntries ==
  [kind : {"task"}, pages : ListedPages, createdAt : Clock, updatedAt : Clock]
  \cup {[kind |-> k, pages |-> [p \in PageNums |-> PageStatusPending],
          createdAt |-> 1, updatedAt |-> 1] : k \in {"broken", "file"}}

\* summarizeTask(task): a page that is neither completed nor error counts as
\* pending
summarizeTask(id, task) ==
  [id |-> id,
   completed |-> Cardinality({p \in DOMAIN task.pages :
                                task.pages[p] = PageStatusCompleted}),
   failed |-> Cardinality({p \in DOMAIN task.pages :
                             task.pages[p] = PageStatusError}),
   pending |-> Cardinality({p \in DOMAIN task.pages :
                              task.pages[p] \notin {PageStatusCompleted, PageStatusError}}),
   createdAt |-> task.createdAt,
   updatedAt |-> task.updatedAt]

\* a comparison that orders equal UpdatedAt by the earlier CreatedAt
ListLessEarlierCreated(a, b) ==
  IF a.updatedAt = b.updatedAt THEN a.createdAt < b.createdAt
  ELSE a.updatedAt > b.updatedAt

\* the less function ListTasks gives to sort.Slice
ListLess(a, b) ==
  IF a.updatedAt = b.updatedAt THEN a.createdAt > b.createdAt
  ELSE a.updatedAt > b.updatedAt

\* the results ListTasks can return for the entries os.ReadDir lists: the
\* summaries of the loadable task directories in an order sort.Slice (which
\* is not stable) can produce with ListLess
ListTasks(entries) ==
  LET ids == {i \in DOMAIN entries : entries[i].kind = "task"}
      n == Cardinality(ids)
  IN {out \in [1..n -> {summarizeTask(i, entries[i]) : i \in ids}] :
        /\ \A i, j \in 1..n : i # j => out[i].id # out[j].id
        /\ \A i, j \in 1..n : i < j => ~ListLess(out[j], out[i])}

\* one ListTasks call on a storage directory of its own
ApplyListTasks ==
  /\ fn.name = "none"
  /\ \E n \in 1..MaxTasks :
       \E entries \in [1..n -> DirEntries] :
         \E out \in ListTasks(entries) :
           fn' = [name |-> "ListTasks", arg |-> entries, res |-> out]
  /\ UNCHANGED <<disk, mem, jobs, worker, rt, mg, run, artifact, pool, fs,
                 last, sv>>

\* ------------------------------------------------------------- CreateTask
NoFn == [name |-> "none", arg |-> <<>>, res |-> {}]

\* the variables' values while no task document has been built or stored
NoTask == NewTask({}, "")

NoPool ==
  [stage |-> "none", selected |-> {}, maxW |-> 1, batch |-> 0,
   calls |-> [p \in PageNums |-> 0]]

\* CreateTask up to its saveTask(task): the task directory is made, the pages
\* are built, the pages outside the selection are marked and the first
\* document is saved; s.maxWorkers and settings.BatchLimit are kept for the pool
CreateSave(st, maxW, batch) ==
  /\ pool.stage = "none"
  /\ LET sel == determineInitialPageSet(NPages, st) IN
       /\ mem' = NewTask(sel, "openai")
       /\ disk' = mem'
       /\ pool' = [pool EXCEPT !.stage = "saved", !.selected = sel,
                               !.maxW = maxW, !.batch = batch]
  /\ fs' = "meta"
  /\ UNCHANGED <<jobs, worker, rt, mg, run, artifact, last, fn, sv>>

\* CreateTask: go s.translateTaskPages(...), which starts workerCount workers
\* and sends the selected pages on the jobs channel in page order
CreateLaunch ==
  /\ pool.stage = "saved"
  /\ LET n == workerCount(pool.maxW, pool.batch, Cardinality(pool.selected)) IN
       worker' = [w \in Workers |-> IF w <= n THEN IdleWorker ELSE OffWorker]
  /\ jobs' = SeqOfSet(pool.selected)
  /\ pool' = [pool EXCEPT !.stage = "launched"]
  /\ UNCHANGED <<disk, mem, rt, mg, run, artifact, fs, last, fn, sv>>

CreateTask ==
  \/ \E st \in SettingsSet, maxW \in 1..MaxWorkers, batch \in 0..1 :
       CreateSave(st, maxW, batch)
  \/ CreateLaunch

\* ---------------------------------------------------------- splitTextChunks
\* A Go string is a sequence of bytes.  The units of a text are the UTF-8
\* encodings of a letter, of a newline, of a two-byte and of a four-byte
\* rune, and a stray byte that is no valid encoding.
TextUnits == {"a", "nl", "w2", "w4", "bad"}

Texts == UNION {[1..n -> TextUnits] : n \in 0..MaxLen}

\* `for _, r := range text`: a stray byte is read as utf8.RuneError
DecodeRune(u) == IF u = "bad" THEN "fffd" ELSE u

\* utf8.RuneLen(r), the bytes utf8.EncodeRune writes
RuneLen(r) ==
  CASE r = "w2" -> 2
    [] r = "fffd" -> 3
    [] r = "w4" -> 4
    [] OTHER -> 1

\* len(s) of a string made of units
RECURSIVE ByteLen(_)
ByteLen(t) ==
  IF t = <<>> THEN 0
  ELSE (IF Head(t) = "bad" THEN 1 ELSE RuneLen(Head(t))) + ByteLen(Tail(t))

\* the loop of splitTextChunks from the k-th unit on, and the final flush
RECURSIVE SplitLoop(_, _, _, _, _, _)
SplitLoop(text, k, maxBytes, chunks, builder, current) ==
  IF k > Len(text)
  THEN IF builder # <<>> THEN Append(chunks, builder) ELSE chunks
  ELSE LET r == DecodeRune(text[k])
           full == current + RuneLen(r) > maxBytes /\ builder # <<>>
           chunks1 == IF full THEN Append(chunks, builder) ELSE chunks
           builder1 == Append(IF full THEN <<>> ELSE builder, r)
           current1 == (IF full THEN 0 ELSE current) + RuneLen(r)
       IN IF r = "nl" /\ current1 > maxBytes - newlineSlack
          THEN SplitLoop(text, k + 1, maxBytes, Append(chunks1, builder1),
                         <<>>, 0)
          ELSE SplitLoop(text, k + 1, maxBytes, chunks1, builder1, current1)

\* splitTextChunks that uses a budget of 0 or less as it is
splitTextChunksNoDefault(text, maxBytes) ==
  SplitLoop(text, 1, maxBytes, <<>>, <<>>, 0)

splitTextChunks(text, maxBytes) ==
  SplitLoop(text, 1, IF maxBytes <= 0 THEN formatterChunkSize ELSE maxBytes,
            <<>>, <<>>, 0)

\* budgets around the width of a rune, budgets that far above newlineSlack,
\* and budgets that stand for the default
SplitBudgets ==
  (0 - 1)..MaxBudget \cup {newlineSlack + b : b \in 1..MaxBudget}

\* one call of splitTextChunks
ApplySplit ==
  /\ fn.name = "none"
  /\ \E text \in Texts, maxBytes \in SplitBudgets :
       fn' = [name |-> "splitTextChunks",
              arg |-> [text |-> text, maxBytes |-> maxBytes],
              res |-> splitTextChunks(text, maxBytes)]
  /\ UNCHANGED <<disk, mem, jobs, worker, rt, mg, run, artifact, pool, fs,
                 last, sv>>

\* ----------------------------------------------- estimateFormatterChunkSize
\* int(float64(maxTokens) * 4 * 0.4): the product is the 1.6-fold of
\* maxTokens and the conversion drops its fraction.  A product outside the
\* range of int converts to a value that depends on the build: the smallest
\* int on amd64, the largest or the smallest on builds that saturate.
IntOfEstimate(maxTokens) ==
  LET q == maxTokens \div 5
      r == maxTokens % 5
  IN IF q > IntMax \div 8
     THEN {(0 - IntMax) - 1, IntMax}
     ELSE {8 * q + (8 * r) \div 5}

\* estimateFormatterChunkSize once the conversion gave the value converted
ChunkSizeFor(provider, maxTokens, converted) ==
  LET estimated == IF converted < minFormatterChunk THEN minFormatterChunk
                   ELSE IF converted > formatterChunkSize
                   THEN formatterChunkSize
                   ELSE converted
      size == IF maxTokens > 0 /\ estimated < formatterChunkSize
              THEN estimated
              ELSE formatterChunkSize
      halved == IF provider = "openai"
                THEN IF size > minFormatterChunk * 2 THEN size \div 2
                     ELSE minFormatterChunk
                ELSE size
  IN IF halved < minFormatterChunk THEN minFormatterChunk ELSE halved

\* estimateFormatterChunkSize that halves the budget of every provider
estimateFormatterChunkSizeHalvesAll(provider, maxTokens) ==
  {ChunkSizeFor("openai", maxTokens, c) : c \in IntOfEstimate(maxTokens)}

\* the values estimateFormatterChunkSize can return
estimateFormatterChunkSize(provider, maxTokens) ==
  {ChunkSizeFor(provider, maxTokens, c) : c \in IntOfEstimate(maxTokens)}

\* token budgets: unset, the budgets up to MaxTokenBudget, and the budgets
\* around the largest one whose 1.6-fold is an int
TokenBudgets ==
  (0 - 1)..MaxTokenBudget
    \cup {(IntMax \div 8) * 5 + 4, (IntMax \div 8) * 5 + 5, IntMax}

\* one call of estimateFormatterChunkSize
ApplyEstimate ==
  /\ fn.name = "none"
  /\ \E provider \in Providers, maxTokens \in TokenBudgets :
       \E size \in estimateFormatterChunkSize(provider, maxTokens) :
         fn' = [name |-> "estimateFormatterChunkSize",
                arg |-> [provider |-> provider, maxTokens |-> maxTokens],
                res |-> size]
  /\ UNCHANGED <<disk, mem, jobs, worker, rt, mg, run, artifact, pool, fs,
                 last, sv>>

\* --------------------------------------------------- determineInitialPageSet
\* TranslationSettings values given to determineInitialPageSet on its own
PageSetInputs ==
  [mode : {"", "custom", "CUSTOM", "range", " Range "},
   custom : -1..(MaxTotal + 1), start : -1..(MaxTotal + 1),
   end : -1..(MaxTotal + 1)]

\* one call of determineInitialPageSet(total, settings)
ApplyPageSet ==
  /\ fn.name = "none"
  /\ \E total \in 1..MaxTotal, st \in PageSetInputs :
       fn' = [name |-> "determineInitialPageSet", arg |-> <<total, st>>,
              res |-> determineInitialPageSet(total, st)]
  /\ UNCHANGED <<disk, mem, jobs, worker, rt, mg, run, artifact, pool, fs,
                 last, sv>>

\* ------------------------------------------------------------ initial states
\* no task has been created
InitEmpty ==
  /\ mem = NoTask
  /\ disk = NoTask
  /\ jobs = <<>>
  /\ worker = [w \in Workers |-> OffWorker]
  /\ rt = IdleRt
  /\ mg = IdleMg
  /\ run = IdleRun("idle")
  /\ artifact = NoArtifact
  /\ pool = NoPool
  /\ fs = "none"
  /\ last = NoCall
  /\ fn = NoFn
  /\ sv = NoSave

\* CreateTask has saved the first document and launched the pool
InitTask ==
  \E st \in SettingsSet, maxW \in 1..MaxWorkers, batch \in 0..1 :
    LET sel == determineInitialPageSet(NPages, st)
        n == workerCount(maxW, batch, Cardinality(sel))
    IN /\ mem = NewTask(sel, "openai")
       /\ disk = mem
       /\ jobs = SeqOfSet(sel)
       /\ worker = [w \in Workers |-> IF w <= n THEN IdleWorker ELSE OffWorker]
       /\ rt = IdleRt
       /\ mg = IdleMg
       /\ run = IdleRun("idle")
       /\ artifact = NoArtifact
       /\ pool = [NoPool EXCEPT !.stage = "launched", !.selected = sel,
                                !.maxW = maxW, !.batch = batch]
       /\ fs = "meta"
       /\ last = NoCall
       /\ fn = NoFn
       /\ sv = NoSave

\* the pool has finished and every page was translated with text
TranslatedPage ==
  [status |-> PageStatusCompleted, hasText |-> TRUE, src |-> "s", tr |-> "a",
   error |-> ""]

\* a stored task of any kind, with no operation in progress
InitStored ==
  /\ disk \in StoredTasks
  /\ mem = disk
  /\ jobs = <<>>
  /\ worker = [w \in Workers |-> IdleWorker]
  /\ rt = IdleRt
  /\ mg = IdleMg
  /\ run = IdleRun("idle")
  /\ artifact = NoArtifact
  /\ pool = [NoPool EXCEPT !.stage = "launched", !.maxW = MaxWorkers]
  /\ fs = "meta"
  /\ last = NoCall
  /\ fn = NoFn
  /\ sv = NoSave

InitTranslated ==
  /\ mem = [NewTask(PageNums, "openai") EXCEPT !.pages = [p \in PageNums |-> TranslatedPage]]
  /\ disk = mem
  /\ jobs = <<>>
  /\ worker = [w \in Workers |-> IdleWorker]
  /\ rt = IdleRt
  /\ mg = IdleMg
  /\ run = IdleRun("idle")
  /\ artifact = NoArtifact
  /\ pool = [NoPool EXCEPT !.stage = "launched", !.selected = PageNums,
                           !.maxW = MaxWorkers, !.calls = [p \in PageNums |-> 1]]
  /\ fs = "meta"
  /\ last = NoCall
  /\ fn = NoFn
  /\ sv = NoSave

Next ==
  \/ PoolStep \/ RetranslatePage \/ MergeText \/ MergePDF \/ FormatTaskLayout
  \/ \E id \in TaskIds : DeleteTask(id) \/ GetTask(id)

\* every operation, from the state CreateTask leaves
Spec == InitTask /\ [][Next]_vars

\* the page pool and RetranslatePage
SpecPages == InitTask /\ [][PoolStep \/ RetranslatePage]_vars

\* formatting runs on a translated task
SpecFormat == InitTranslated /\ [][FormatTaskLayout]_vars

\* one chunk goroutine of a formatting run: processChunk
ChunkStep(i) ==
  \/ ChunkEnter(i) \/ ChunkAcquire(i) \/ ChunkWake(i) \/ ChunkPersist(i)
  \/ \E outcome \in FormatOutcomes : ChunkFormatted(i, outcome)

\* the goroutine of the FormatTaskLayout call once the chunks are prepared
FmtStep ==
  \/ \E n \in 1..MaxChunks : FmtPrepare(n)
  \/ FmtPrepareFails \/ FmtBegin \/ FmtAssemble \/ FmtFinish \/ FmtFail

\* formatting runs in which the caller's goroutine and every chunk goroutine
\* keep being scheduled and every Format call, sleep and save returns
SpecFormatLive ==
  /\ InitTranslated
  /\ [][FormatTaskLayout]_vars
  /\ WF_vars(FmtStep)
  /\ \A i \in ChunkIdx : WF_vars(ChunkStep(i))

\* formatting runs on a translated task, with MergeText calls
SpecFormatMerge == InitTranslated /\ [][FormatTaskLayout \/ MergeText]_vars

\* the page pool alone, from the state CreateTask leaves; the Go scheduler runs
\* every runnable pool goroutine and every Translate call returns
SpecPool == InitTask /\ [][PoolStep]_vars /\ WF_vars(PoolStep)

\* CreateTask from an empty store, followed by its pool
SpecCreate == InitEmpty /\ [][CreateTask \/ PoolStep]_vars

\* DeleteTask and GetTask calls beside the pool
SpecDelete ==
  InitTask /\ [][PoolStep \/ \E id \in TaskIds : DeleteTask(id) \/ GetTask(id)]_vars

\* the page pool, DeleteTask and GetTask, and FormatTaskLayout calls up to
\* the dispatch of their chunks
SpecDeleteFormat ==
  /\ InitTask
  /\ [][\/ PoolStep
        \/ \E id \in TaskIds : DeleteTask(id) \/ GetTask(id)
        \/ \E cfg \in FormatConfigs : FmtEnter(cfg)
        \/ \E n \in 1..MaxChunks : FmtPrepare(n)
        \/ FmtPrepareFails
        \/ FmtBegin]_vars

\* saves and loads of one task at the grain of file operations, with crashes
SpecSave == InitTranslated /\ [][SaveLoad]_vars

\* a save of a task that was just loaded, for documents of its own
SpecRoundTrip == InitEmpty /\ [][ApplySaveLoaded]_vars

\* ListTasks calls on storage directories of their own
SpecList == InitEmpty /\ [][ApplyListTasks]_vars

\* MergeText calls on loaded tasks of their own
SpecMergeText == InitEmpty /\ [][ApplyMergeText]_vars

\* calls of determineInitialPageSet on page counts and settings of its own
SpecPageSet == InitEmpty /\ [][ApplyPageSet]_vars

\* FormatTaskLayout calls up to the dispatch of their chunks on a stored
\* task of any kind, with DeleteTask and GetTask
SpecFormatEntry ==
  /\ InitStored
  /\ [][\/ \E cfg \in FormatConfigs : FmtEnter(cfg)
        \/ \E n \in 1..MaxChunks : FmtPrepare(n)
        \/ FmtPrepareFails
        \/ FmtBegin
        \/ \E id \in TaskIds : DeleteTask(id) \/ GetTask(id)]_vars

\* one call of splitTextChunks on a bounded text and budget
SpecSplit == InitEmpty /\ [][ApplySplit]_vars

\* one call of estimateFormatterChunkSize
SpecEstimate == InitEmpty /\ [][ApplyEstimate]_vars

\* ------------------------------------------------------------------ claims
\* C1: in every persisted state with formattingTotalChunks > 0,
\* 0 <= formattingCompletedChunks <= formattingTotalChunks
C1_CompletedWithinTotal ==
  disk.formattingTotalChunks > 0 =>
    /\ 0 <= disk.formattingCompletedChunks
    /\ disk.formattingCompletedChunks <= disk.formattingTotalChunks

\* C2: no persisted state has formattedByAI and formattingInProgress both true
C2_NotFormattedAndInProgress ==
  ~(disk.formattedByAI /\ disk.formattingInProgress)

\* C3: formatted.txt is written, and the run goes on to set formattedByAI,
\* only with a result recorded for every chunk of the run
C3_AssemblesOnlyComplete ==
  /\ artifact.total > 0 => artifact.parts = 1..artifact.total
  /\ run.pc = "loaded" => Parts = 1..run.totalChunks

\* C4: once a run has returned an error after dispatching its chunks (and no
\* other call has started), the persisted task has formattingInProgress =
\* false and formattedByAI = false
C4_FailedRunFlags ==
  run.pc = "failed" => ~disk.formattingInProgress /\ ~disk.formattedByAI

\* C5: the state persisted when a run fails has formattingCompletedChunks =
\* the number of chunks that succeeded in the run and formattingTotalChunks =
\* the chunk count of the run
C5_FailedRunCounts ==
  [][(run.pc = "work" /\ run'.pc = "failed") =>
       /\ disk'.formattingCompletedChunks = Cardinality(Parts)
       /\ disk'.formattingTotalChunks = run.totalChunks]_vars

\* C6: from the moment a run returns success until another call starts, the
\* persisted task has formattedByAI = true, formattingInProgress = false and
\* formattingCompletedChunks = formattingTotalChunks = the run's chunk count
C6_SuccessState ==
  run.pc = "ok" =>
    /\ disk.formattedByAI
    /\ ~disk.formattingInProgress
    /\ disk.formattingTotalChunks = artifact.total
    /\ disk.formattingCompletedChunks = artifact.total

\* C6, at the return itself and with MergeText calls running beside the run:
\* the final saveTask persists the success state whatever document the run
\* loaded before it
C6_ReturnPersistsSuccess ==
  [][(run.pc = "loaded" /\ run'.pc = "ok") =>
       /\ disk'.formattedByAI
       /\ ~disk'.formattingInProgress
       /\ disk'.formattingTotalChunks = run.totalChunks
       /\ disk'.formattingCompletedChunks = run.totalChunks]_vars

\* C6 witness: a run of more than one chunk has returned success
C6_Witness == run.pc = "ok" /\ artifact.total > 1 /\ disk.formattedByAI

\* C7: while a run is at work, no step lowers the persisted
\* formattingCompletedChunks
C7_MonotonicProgress ==
  [][(run.pc = "work" /\ run'.pc = "work") =>
       disk'.formattingCompletedChunks >= disk.formattingCompletedChunks]_vars

\* C8: the persisted formattingInProgress is true only while a formatting
\* run is executing
C8_InProgressOnlyWhileRunning ==
  disk.formattingInProgress => run.pc \in {"work", "loaded"}

\* C9: a save made for one page (by a pool worker or by RetranslatePage)
\* changes no other page whose result is already persisted
C9_SaveKeepsOtherPages ==
  [][\A p \in PageNums :
       (disk.pages[p].status # PageStatusPending /\ disk'.pages[p] # disk.pages[p]) =>
         \/ \E w \in Workers : worker[w].pc = "save" /\ worker'[w].pc = "idle"
                               /\ worker[w].page = p
         \/ rt' # rt /\ rt.page = p]_vars

\* the formatting fields of a task document
FormattingFields(t) ==
  <<t.formattedByAI, t.formattingInProgress, t.formattingTotalChunks,
    t.formattingCompletedChunks>>

\* C10: a save of MergeText, which loaded the task earlier, does not revert
\* the formatting fields persisted since that load
C10_MergeSaveKeepsFormatting ==
  [][(mg.pc = "loaded" /\ mg'.pc = "idle") =>
       FormattingFields(disk') = FormattingFields(disk)]_vars

\* translateTaskPages has returned: every page was sent and every worker left
\* its loop
PoolDone ==
  /\ pool.stage = "launched"
  /\ jobs = <<>>
  /\ \A w \in Workers : worker[w].pc \in {"idle", "off"}

Resolved == {PageStatusCompleted, PageStatusError}

\* C11: within one pool invocation Translate is called at most once for a
\* selected page and never for another page; when the pool has returned every
\* selected page was translated exactly once and is completed or error, in the
\* pool's task and in meta.json, whatever the outcome of the other pages; and
\* the pool does return.
C11_PoolResolvesEveryPage ==
  /\ [](\A p \in PageNums :
         pool.calls[p] <= (IF p \in pool.selected THEN 1 ELSE 0))
  /\ [](PoolDone =>
         \A p \in pool.selected :
           /\ pool.calls[p] = 1
           /\ mem.pages[p].status \in Resolved
           /\ disk.pages[p].status \in Resolved)
  /\ <>PoolDone

\* the pool has returned with one page failed and another completed
C11_Witness ==
  /\ PoolDone
  /\ \E p, q \in pool.selected :
       /\ disk.pages[p].status = PageStatusError
       /\ disk.pages[q].status = PageStatusCompleted
       /\ pool.calls[p] = 1 /\ pool.calls[q] = 1

\* C12: every page of meta.json whose status is error carries a non-empty
\* error message, also in a document saved by one pool worker while another
\* worker is between storing page.Status and page.Error on the shared task.
C12_ErrorHasMessage ==
  fs = "meta" =>
    \A p \in PageNums :
      disk.pages[p].status = PageStatusError => disk.pages[p].error # ""

\* C13: every page of meta.json whose status is completed has an empty error
\* string: pages CreateTask skipped, pages the pool completed and pages
\* RetranslatePage completed after an earlier error.
C13_CompletedHasNoError ==
  fs = "meta" =>
    \A p \in PageNums :
      disk.pages[p].status = PageStatusCompleted => disk.pages[p].error = ""

\* the pool recorded a failure for a page, has returned, and RetranslatePage
\* has since persisted that page as completed with text
C13_Witness ==
  /\ PoolDone
  /\ rt.pc = "idle"
  /\ \E p \in pool.selected :
       /\ mem.pages[p].status = PageStatusError
       /\ mem.pages[p].error # ""
       /\ disk.pages[p].status = PageStatusCompleted
       /\ disk.pages[p].hasText
  /\ \E q \in PageNums \ pool.selected :
       disk.pages[q].status = PageStatusCompleted

\* C14: a page of meta.json that is completed or error is never pending in the
\* next persisted document, whatever the interleaving of the pool's saves and
\* RetranslatePage's saves.
C14_NeverBackToPending ==
  [][\A p \in PageNums :
       disk.pages[p].status \in Resolved => disk'.pages[p].status \in Resolved]_vars

\* the text fields of a page
PageText(pg) == <<pg.hasText, pg.src, pg.tr>>

\* C15: a translation attempt that ends with the page in status error leaves
\* the page's hasText, sourceText and translation as they were before the
\* attempt: unset for a page of the pool (translated once, from the page
\* CreateTask built), and the loaded page's values for RetranslatePage, so that
\* a failed retranslation keeps the text of the attempt before it.
C15_ErrorKeepsText ==
  /\ [](\A w \in Workers :
         (/\ worker[w].pc \in {"seterr", "save"}
          /\ mem.pages[worker[w].page].status = PageStatusError)
         => PageText(mem.pages[worker[w].page]) = PageText(NewPage))
  /\ [][(rt.pc = "call" /\ rt'.pc = "savetask")
        => /\ rt'.task.pages[rt.page].status = PageStatusError
           /\ PageText(rt'.task.pages[rt.page]) = PageText(rt.task.pages[rt.page])]_vars

\* the part of C15 that holds: when Translate itself fails the text fields
\* stay as they were, in the pool and in RetranslatePage
C15_TranslateFailureKeepsText ==
  /\ [](\A w \in Workers :
         (/\ worker[w].pc \in {"seterr", "save"}
          /\ worker[w].msg = "translate failed")
         => PageText(mem.pages[worker[w].page]) = PageText(NewPage))
  /\ [][(/\ rt.pc = "call" /\ rt'.pc = "savetask"
         /\ rt'.task.pages[rt.page].error = "translate failed")
        => PageText(rt'.task.pages[rt.page]) = PageText(rt.task.pages[rt.page])]_vars

\* the pages of the pool whose result no worker has saved yet
PoolUnsaved ==
  {jobs[i] : i \in 1..Len(jobs)} \cup
  {worker[w].page : w \in {v \in Workers : worker[v].pc \notin {"idle", "off"}}}

\* C16: in the document CreateTask saves first (it stays the persisted one
\* until a pool worker saves) every page outside the selection is completed
\* with hasText false and empty sourceText, translation and error, and every
\* selected page is pending; no pool worker or queued page exists before that
\* document is saved.
C16_FirstPersistedState ==
  /\ (pool.stage = "none" =>
        /\ fs = "none" /\ jobs = <<>>
        /\ \A w \in Workers : worker[w].pc = "off")
  /\ (pool.stage = "saved" =>
        /\ jobs = <<>>
        /\ \A w \in Workers : worker[w].pc = "off")
  /\ ((pool.stage # "none" /\ (pool.stage = "saved" \/ PoolUnsaved = pool.selected)) =>
        /\ fs = "meta"
        /\ \A p \in PageNums :
             IF p \in pool.selected
             THEN disk.pages[p].status = PageStatusPending
             ELSE disk.pages[p] =
                    [status |-> PageStatusCompleted, hasText |-> FALSE,
                     src |-> "", tr |-> "", error |-> ""])

\* CreateTask has saved a document with a skipped page and a selected page and
\* has not launched the pool yet
C16_Witness ==
  /\ pool.stage = "saved"
  /\ pool.selected # {}
  /\ PageNums \ pool.selected # {}

Max(a, b) == IF a > b THEN a ELSE b

\* C17: determineInitialPageSet returns a non-empty subset of 1..total: for
\* mode custom with a positive limit the pages 1..min(limit, total); for mode
\* range with a positive start or end the contiguous range got by taking 1 for
\* a non-positive start and total for a non-positive end, exchanging the two
\* when start exceeds end and clamping both to total; otherwise all pages.
C17_InitialPageSet ==
  fn.name = "determineInitialPageSet" =>
    LET total == fn.arg[1]
        st == fn.arg[2]
        mode == NormalizeMode(st.mode)
        s == IF st.start <= 0 THEN 1 ELSE st.start
        e == IF st.end <= 0 THEN total ELSE st.end
    IN /\ fn.res # {}
       /\ fn.res \subseteq 1..total
       /\ fn.res =
            IF mode = "custom" /\ st.custom > 0
            THEN 1..Min(st.custom, total)
            ELSE IF mode = "range" /\ (st.start > 0 \/ st.end > 0)
            THEN Min(Min(s, e), total)..Min(Max(s, e), total)
            ELSE 1..total

\* a range request whose start exceeds its end and the page count
C17_Witness ==
  /\ fn.name = "determineInitialPageSet"
  /\ NormalizeMode(fn.arg[2].mode) = "range"
  /\ fn.arg[2].end > 0
  /\ fn.arg[2].start > fn.arg[2].end
  /\ fn.arg[2].start > fn.arg[1]
  /\ fn.res # 1..fn.arg[1]

\* the pool workers inside translatorClient.Translate
InTranslate == {w \in Workers : worker[w].pc = "call"}

\* C18: the number of Translate calls in progress within one pool invocation
\* never exceeds the least of s.maxWorkers, settings.BatchLimit when it is
\* positive, and the number of selected pages.
C18_ConcurrentTranslateBound ==
  Cardinality(InTranslate) <=
    Min(Min(pool.maxW, IF pool.batch > 0 THEN pool.batch ELSE pool.maxW),
        Cardinality(pool.selected))

\* as many Translate calls in progress as the bound allows, more than one
C18_Witness ==
  /\ Cardinality(InTranslate) = MaxWorkers
  /\ Cardinality(InTranslate) > 1
  /\ pool.maxW = MaxWorkers

\* C19: the text of formatted.txt is the trimmed join, with a blank line
\* between, of the chunk results in ascending chunk index (a chunk without a
\* result contributing the empty string), whatever the order in which the
\* chunk goroutines completed; with every chunk present it is result 1, blank
\* line, result 2, and so on.
C19_AssembledInChunkOrder ==
  artifact.total > 0 =>
    /\ artifact.text =
         TrimText(Join([i \in ChunkIdx |->
                          IF i \in artifact.parts THEN ChunkText(i) ELSE <<>>],
                       artifact.total))
    /\ (artifact.parts = 1..artifact.total =>
          artifact.text =
            [k \in 1..(2 * artifact.total - 1) |->
               IF k % 2 = 1 THEN ToString((k + 1) \div 2) ELSE Separator])

\* a run assembled its text after its last chunk completed before its first
C19_Witness ==
  /\ run.pc = "loaded"
  /\ run.totalChunks = MaxChunks
  /\ run.chunk[MaxChunks].completed = 1
  /\ run.chunk[1].completed = MaxChunks
  /\ artifact.parts = 1..MaxChunks
  /\ Len(artifact.text) = 2 * MaxChunks - 1

\* meta.json of a task with this id exists
StoredTask(id) == id = "t" /\ fs = "meta"

\* C20: a DeleteTask call for an id that has no stored task returns an error
\* and leaves the storage as it is; a DeleteTask call for a stored task
\* returns no error and removes the task directory; and GetTask succeeds only
\* while the task is stored, so it fails after the deletion.
C20_DeleteTask ==
  /\ [][(last' # last /\ last'.op = "delete") =>
          IF StoredTask(TrimSpace(last'.id))
          THEN last'.err = "" /\ fs' \in {"gone", "none"}
          ELSE last'.err # "" /\ UNCHANGED <<disk, fs>>]_vars
  /\ []((last.op = "get" /\ last.err = "") => StoredTask(last.id))

\* the part of C20 that holds: the same for every id but the path element "."
C20_DeleteNamedTask ==
  /\ [][(last' # last /\ last'.op = "delete" /\ last'.id # ".") =>
          IF StoredTask(TrimSpace(last'.id))
          THEN last'.err = "" /\ fs' = "none"
          ELSE last'.err # "" /\ UNCHANGED <<disk, fs>>]_vars
  /\ []((last.op = "get" /\ last.err = "") => StoredTask(last.id))

\* C21: meta.json always holds a whole document; a step of a save, a crash
\* included, either leaves meta.json as it was or makes it the whole document
\* being saved; and a loadTask that runs beside a save reads a whole document.
C21_AtomicSave ==
  /\ [](fs = "meta" => sv.meta = DocBlocks)
  /\ [][disk' # disk => (sv.pc = "write" /\ disk' = sv.doc)]_vars
  /\ [](sv.rd.pc = "done" => sv.rd.len = DocBlocks)

\* a crash in the middle of os.WriteFile left part of another document in
\* meta.json.tmp
C21_Witness ==
  /\ sv.pc = "idle"
  /\ sv.tmp.has
  /\ sv.tmp.len > 0 /\ sv.tmp.len < DocBlocks
  /\ sv.tmp.doc # disk

C23_ListTasks ==
  fn.name = "ListTasks" =>
    LET entries == fn.arg
        out == fn.res
        loadable == {i \in DOMAIN entries : entries[i].kind = "task"}
        Count(i, status) ==
          Cardinality({p \in PageNums : entries[i].pages[p] = status})
    IN /\ Len(out) = Cardinality(loadable)
       /\ {out[k].id : k \in DOMAIN out} = loadable
       /\ \A k \in DOMAIN out :
            /\ out[k].completed = Count(out[k].id, PageStatusCompleted)
            /\ out[k].pending = Count(out[k].id, PageStatusPending)
            /\ out[k].failed = Count(out[k].id, PageStatusError)
            /\ out[k].completed + out[k].pending + out[k].failed = NPages
       /\ \A k \in DOMAIN out : k > 1 =>
            \/ out[k - 1].updatedAt > out[k].updatedAt
            \/ /\ out[k - 1].updatedAt = out[k].updatedAt
               /\ out[k - 1].createdAt >= out[k].createdAt

\* a listing that skipped an entry and has two tasks of equal updatedAt and
\* different createdAt, one of them with a failed page
C23_Witness ==
  /\ fn.name = "ListTasks"
  /\ Len(fn.res) = 2
  /\ Len(fn.arg) = 3
  /\ fn.res[1].updatedAt = fn.res[2].updatedAt
  /\ fn.res[1].createdAt # fn.res[2].createdAt
  /\ fn.res[1].failed + fn.res[2].failed > 0

\* C24: the pages of meta.json are always exactly the pages CreateTask built,
\* each once, at positions 1..NPages in ascending page number, whatever the
\* interleaving of the pool's saves and RetranslatePage's saves and merges.
C24_PagesPreserved ==
  fs = "meta" =>
    /\ Len(disk.pages) = NPages
    /\ disk.ids = [p \in PageNums |-> p]

\* RetranslatePage merged a page into the document a pool worker had saved
\* with another result for that page, after the pool returned
C24_Witness ==
  /\ PoolDone
  /\ rt.pc = "idle"
  /\ \E p \in pool.selected :
       /\ mem.pages[p].status = PageStatusCompleted
       /\ disk.pages[p].status = PageStatusCompleted
       /\ mem.pages[p].hasText # disk.pages[p].hasText

\* C25: the combined text of MergeText has one segment for each page with
\* hasText true and a translation that is not blank, and for no other page,
\* in page order and with the trimmed translation; when no page qualifies
\* MergeText returns an error, writes no combined.txt and saves nothing.
C25_MergeText ==
  fn.name = "MergeText" =>
    LET task == fn.arg
        qualifying == {p \in PageNums :
                         task.pages[p].hasText /\ TrimSpace(task.pages[p].tr) # ""}
        order == SeqOfSet(qualifying)
    IN IF qualifying = {}
       THEN fn.res.err # "" /\ ~fn.res.wrote /\ ~fn.res.saved /\ fn.res.task = task
       ELSE /\ fn.res.err = "" /\ fn.res.wrote /\ fn.res.saved
            /\ fn.res.file =
                 [k \in 1..Len(order) |->
                    [page |-> order[k], text |-> TrimSpace(task.pages[order[k]].tr)]]

\* a merge that left out a page with a blank translation and a page without
\* text
C25_Witness ==
  /\ fn.name = "MergeText"
  /\ fn.res.wrote
  /\ Len(fn.res.file) < NPages
  /\ \E p \in PageNums : fn.arg.pages[p].hasText /\ fn.arg.pages[p].tr = " "

\* a MergeText call on a task without any usable text returned its error
C25_WitnessNoText ==
  /\ fn.name = "MergeText"
  /\ fn.res.err # ""
  /\ \E p \in PageNums : fn.arg.pages[p].tr # ""

\* C26: a chunk whose Format call returned a rate-limit error three times is
\* not given a fourth Format call and the run fails; the sleep before the
\* k-th retry is k seconds.
C26_NoFourthAttempt ==
  \A i \in ChunkIdx :
    /\ run.chunk[i].calls <= maxRetries
    /\ (run.chunk[i].retries = maxRetries =>
          run.chunk[i].pc = "exit" /\ run.firstErr # 0)
    /\ (run.chunk[i].pc = "sleep" => run.chunk[i].wait = run.chunk[i].retries)

\* What processChunk does instead: Format is called at most four times for a
\* chunk: after its k-th rate-limit error, k = 1, 2, 3, the chunk sleeps k
\* seconds and is tried again; when the fourth call does not give a result
\* the chunk records the run's error and is not tried again, and a run with
\* a recorded error never assembles its text.
C26_FourAttemptsWithBackoff ==
  /\ [](\A i \in ChunkIdx :
         /\ run.chunk[i].calls <= maxRetries + 1
         /\ run.chunk[i].retries <= maxRetries
         /\ (run.chunk[i].pc = "sleep" =>
               /\ run.chunk[i].wait = run.chunk[i].retries
               /\ run.chunk[i].calls = run.chunk[i].retries
               /\ run.chunk[i].retries \in 1..maxRetries))
  /\ [][\A i \in ChunkIdx :
          (/\ run.chunk[i].pc = "format"
           /\ run.chunk[i].retries = maxRetries
           /\ run'.chunk[i].pc \notin {"format", "persist"})
          => /\ run'.chunk[i].pc = "exit"
             /\ run'.firstErr # 0
             /\ run'.chunk[i].calls = maxRetries + 1]_vars
  /\ [](run.pc = "loaded" => run.firstErr = 0)

\* C27: a chunk whose formatted output is shorter than half of its input
\* takes the retry path of a rate-limit failure: the limit is lowered to 1
\* and the chunk is tried again, and only a chunk out of retries fails the
\* run.
C27_ShortOutputRetried ==
  \A i \in ChunkIdx :
    run.chunk[i].out = "short" =>
      /\ run.currentLimit = 1
      /\ (run.chunk[i].pc = "exit" => run.chunk[i].retries = maxRetries)

\* C28: whenever acquireSlot admits a chunk worker, the number of active
\* workers before the increment is below the value currentLimit has at that
\* moment, also when the limit was lowered to 1 while the worker was in
\* acquireSlot.
C28_AdmittedBelowCurrentLimit ==
  [][\A i \in ChunkIdx :
       (run.chunk[i].pc = "cas" /\ run'.chunk[i].pc = "format")
       => run.activeSlots < run.currentLimit]_vars

\* What acquireSlot guarantees instead: a worker is admitted only below the
\* limit it read at the start of its loop iteration, so the active workers
\* never exceed the limit the run started with.
C28_AdmittedBelowReadLimit ==
  /\ [][\A i \in ChunkIdx :
          (run.chunk[i].pc = "cas" /\ run'.chunk[i].pc = "format")
          => run.activeSlots < run.chunk[i].curLimit]_vars
  /\ [](run.pc = "work" =>
          run.activeSlots <= Min(workerLimit, run.totalChunks))

C30_FirstErrorWins ==
  /\ [][(run.firstErr # 0 /\ run'.pc = "work") =>
          run'.firstErr = run.firstErr]_vars
  /\ [][(run.firstErr = 0 /\ run'.firstErr # 0) =>
          LET i == run'.firstErr IN
            /\ run.chunk[i].pc = "format"
            /\ run'.chunk[i].pc = "exit"
            /\ run'.chunk[i].out \in {"short", "error", "ratelimit"}
            /\ (run'.chunk[i].out = "ratelimit" =>
                  run.chunk[i].retries = maxRetries)]_vars
  /\ [][\A j \in ChunkIdx :
          (/\ run.firstErr # 0
           /\ run.chunk[j].pc = "start"
           /\ run'.chunk[j].pc # "start")
          => run'.chunk[j].pc = "exit"]_vars
  /\ [][(run.pc = "work" /\ run.firstErr # 0 /\ run'.pc # "work") =>
          run'.pc = "failed" /\ run'.err = run.firstErr]_vars

\* the Format calls of two chunks both failed without a retry left and the
\* error of one of them is the recorded one
C30_Witness ==
  /\ run.pc = "work"
  /\ \E i, j \in ChunkIdx :
       /\ i # j
       /\ run.firstErr = i
       /\ run.chunk[i].pc = "exit" /\ run.chunk[i].out \in {"short", "error"}
       /\ run.chunk[j].pc = "exit" /\ run.chunk[j].out \in {"short", "error"}

\* C31: a chunk worker that finds the shared context cancelled before a
\* Format call leaves without a call, without a result, without counting
\* and without saving; and once the context is cancelled no chunk starts a
\* Format call.
C31_NoFormatAfterCancel ==
  [][\A i \in ChunkIdx :
       (Cancelled /\ run.chunk[i].pc # "format" /\ run'.pc = "work")
       => run'.chunk[i].pc # "format"]_vars

\* C31 (amended): a chunk worker that finds the shared context cancelled at
\* the check of processChunk and acquireSlot leaves without a Format call:
\* only its own position changes, and neither the results, the completed
\* count, the stored task nor the artifact do. A cancelled context stays
\* cancelled for the rest of the run, so every worker whose loop iteration
\* begins after the cancellation makes no call; only a worker that had
\* passed the check before the cancellation can still make one.
C31_CancelObservedNoEffects ==
  /\ [][\A i \in ChunkIdx :
          (Cancelled /\ run.chunk[i].pc = "start" /\ run'.chunk[i].pc # "start")
          => /\ run' = [run EXCEPT !.chunk[i].pc = "exit"]
             /\ run'.chunk[i].calls = run.chunk[i].calls
             /\ run'.results = run.results
             /\ run'.completedChunks = run.completedChunks
             /\ disk' = disk
             /\ artifact' = artifact]_vars
  /\ [][(Cancelled /\ run'.pc = "work") => Cancelled']_vars
  /\ [][\A i \in ChunkIdx :
          (Cancelled /\ run.chunk[i].pc # "format" /\ run'.chunk[i].pc = "format")
          => run.chunk[i].pc = "cas"]_vars

\* in a run of several chunks one chunk recorded an error and another chunk,
\* which never had a Format call, left at the cancellation check
C31_Witness ==
  /\ run.pc = "work"
  /\ \E i, j \in ChunkIdx :
       /\ run.firstErr = j
       /\ i # j
       /\ run.chunk[i].pc = "exit"
       /\ run.chunk[i].calls = 0
       /\ ~run.chunk[i].result

\* C32: when every Format call returns and every goroutine keeps being
\* scheduled, a formatting run that dispatched its chunks ends: every chunk
\* worker that is waiting for a slot, sleeping or in a call leaves the
\* wait, all workers exit and FormatTaskLayout returns success or failure,
\* also after the limit was lowered to 1.
C32_RunTerminates ==
  /\ (run.pc = "work") ~> (run.pc \in {"ok", "failed"})
  /\ \A i \in ChunkIdx :
       (run.chunk[i].pc \in {"start", "cas", "sleep"})
         ~> (run.chunk[i].pc \in {"format", "exit", "none"})
  /\ \A i \in ChunkIdx :
       (run.chunk[i].pc \in {"format", "persist"})
         ~> (run.chunk[i].pc \in {"exit", "none"})

\* a run of several chunks whose limit was lowered to 1: the chunk that was
\* retried after its backoff waits for the slot another chunk holds
C32_Witness ==
  /\ run.pc = "work"
  /\ run.currentLimit = 1
  /\ \E i, j \in ChunkIdx :
       /\ i # j
       /\ run.chunk[i].pc = "format"
       /\ run.chunk[j].pc = "cas"
       /\ run.chunk[j].retries > 0
       /\ run.chunk[j].curLimit = 1

\* the chunks of a split joined in order
RECURSIVE Concat(_)
Concat(chunks) ==
  IF chunks = <<>> THEN <<>> ELSE Head(chunks) \o Concat(Tail(chunks))

\* every cut of the split is one of the two cuts of splitTextChunks for the
\* budget b, and no such cut was left out inside a chunk
CutsFollowRule(chunks, b) ==
  /\ \A k \in 1..(Len(chunks) - 1) :
       \/ ByteLen(chunks[k]) + RuneLen(chunks[k + 1][1]) > b
       \/ /\ chunks[k][Len(chunks[k])] = "nl"
          /\ ByteLen(chunks[k]) > b - newlineSlack
  /\ \A k \in 1..Len(chunks) : \A n \in 1..(Len(chunks[k]) - 1) :
       /\ ByteLen(SubSeq(chunks[k], 1, n + 1)) <= b
       /\ ~(chunks[k][n] = "nl" /\ ByteLen(SubSeq(chunks[k], 1, n)) >
                                      b - newlineSlack)

C33_WitnessBudgetCut ==
  /\ fn.name = "splitTextChunks"
  /\ \A k \in 1..Len(fn.arg.text) : fn.arg.text[k] # "bad"
  /\ fn.arg.maxBytes = MaxBudget
  /\ Len(fn.res) = 2
  /\ \A k \in 1..Len(fn.arg.text) : fn.arg.text[k] # "nl"

\* the 1.6-fold of a token budget, clamped to the floor and the nominal
\* maximum
ClampedEstimate(t) ==
  IF t \div 5 > formatterChunkSize THEN formatterChunkSize
  ELSE Max(minFormatterChunk, Min(formatterChunkSize, (8 * t) \div 5))

C35_CallerCancelFails ==
  [][(/\ run.pc = "work"
      /\ run.ctxDone
      /\ Parts # 1..run.totalChunks
      /\ run'.pc # "work")
     => /\ run'.pc = "failed"
        /\ artifact' = artifact
        /\ disk'.formattedByAI = disk.formattedByAI]_vars

\* C36: once DeleteTask has removed the task no operation that was still in
\* progress writes its meta.json again, so that GetTask fails and ListTasks
\* leaves the task out from then on.
C36_StaysDeleted ==
  [][fs # "meta" => fs' # "meta"]_vars

C38_UnknownPageKeepsTask ==
  [][(rt.pc = "loaded" /\ rt.page \notin PageNums /\ rt'.pc = "idle")
     => disk' = disk]_vars

\* C39: a FormatTaskLayout call that returns an error before its chunks are
\* dispatched (the task cannot be loaded, the API key or the model is
\* blank, no page has usable text, the chunks cannot be prepared, the first
\* progress update fails) changes nothing of the stored task in any of its
\* steps, so formattingInProgress, formattingTotalChunks,
\* formattingCompletedChunks and formattedByAI stay as they were.
C39_RejectedCallKeepsTask ==
  [][(run' # run /\ run'.pc \in {"entered", "prepared", "rejected"})
     => /\ disk' = disk
        /\ FormattingFields(disk') = FormattingFields(disk)]_vars

\* a call whose chunk preparation failed, or whose configuration or text
\* was rejected, on a stored task that is marked as being formatted
C39_Witness ==
  /\ run.pc = "rejected"
  /\ fs = "meta"
  /\ disk.formattingInProgress
  /\ disk.formattingTotalChunks > 0
====
